---- MODULE Spec2Model ----
(***************************************************************************)
(* Model of the data hooks of the avy application:                         *)
(*   hooks/useAlternateObservationZones.ts  (KML ingestion pipeline)       *)
(*   hooks/useNWACWeatherForecast.ts        (forecast fetch and cache)     *)
(*                                                                         *)
(* Four specifications share the module:                                   *)
(*   SpecCoord     parseCoordinates applied to every bounded coordinate    *)
(*                 text                                                    *)
(*   SpecFetch     one call of fetchAlternateObservationZones or of        *)
(*                 fetchNWACWeatherForecast against one remote answer      *)
(*   Spec          the query cache of one key: hook mounts and unmounts,   *)
(*                 prefetches, settling requests, the passage of time      *)
(*   SpecTimeline  the forecast hook requested at 0, 30 min, 90 min, 25 h  *)
(* Strings the code takes apart are sequences of one-character strings.    *)
(***************************************************************************)
EXTENDS Integers, Sequences, FiniteSets, TLC

VARIABLES
    coordinateString,   \* SpecCoord: the argument of parseCoordinates
    coordinates,        \* SpecCoord: its return value
    returned,           \* SpecCoord: whether parseCoordinates has returned
    fn,                 \* SpecFetch: the function called, "kml" or "nwac"
    pc,                 \* SpecFetch: "idle", "awaiting", "returned" or "thrown"
    center_id,          \* SpecFetch: the center_id argument
    accepted,           \* SpecFetch: the names observationZonesPropertiesSchema accepts
    response,           \* SpecFetch: what the remote end answered
    result,             \* SpecFetch: the value returned, or the error thrown
    logs,               \* SpecFetch: the log records emitted, in order
    requests,           \* SpecFetch: the number of axios.get requests issued
    source,             \* cache: the data source exercised, "nwac" or "kml"
    retry,              \* cache: the retries the query client gives a hook's query
    now,                \* cache: the clock, in milliseconds
    ticks,              \* cache: how often the clock has advanced
    queries,            \* cache: the query cache, a function from query keys
    calls,              \* cache: every invocation of a queryFn, in order
    lastSettled,        \* cache: the invocation that settled last, 0 for none
    lastActive,         \* cache: when the entry last had a consumer or a settling fetch
    plan,               \* timeline: the instants at which the hook is requested
    requestLog          \* timeline: what each request of the hook met

varsCoord == <<coordinateString, coordinates, returned>>
varsFetch == <<fn, pc, center_id, accepted, response, result, logs, requests>>
varsCache == <<source, retry, now, ticks, queries, calls, lastSettled, lastActive, plan, requestLog>>
vars == <<varsCoord, varsFetch, varsCache>>

\* the variables of a specification that does not use them
IdleCoord ==
    /\ coordinateString = <<>>
    /\ coordinates = <<>>
    /\ returned = FALSE

IdleFetch ==
    /\ fn = "none"
    /\ pc = "idle"
    /\ center_id = "NWAC"
    /\ accepted = {}
    /\ response = [kind |-> "none"]
    /\ result = [kind |-> "none"]
    /\ logs = <<>>
    /\ requests = 0

IdleCache ==
    /\ source = "none"
    /\ retry = 0
    /\ now = 0
    /\ ticks = 0
    /\ queries = <<>>
    /\ calls = <<>>
    /\ lastSettled = 0
    /\ lastActive = 0
    /\ plan = {}
    /\ requestLog = <<>>

\* a JavaScript number: NaN, or a value
NaN == [nan |-> TRUE, val |-> 0]
Num(v) == [nan |-> FALSE, val |-> v]
IsFinite(x) == ~x.nan

\* the missing element of a destructured array
Undefined == <<"undefined">>

\* longest coordinate text that is enumerated
MaxLen == 5

\* the characters of a coordinate text: whitespace, the component separator,
\* a digit, a sign, and a character no number contains
Chars == {" ", ",", "1", "-", "x"}

IsWs(c) == c = " "
IsDigit(c) == c = "1"
DigitVal(c) == 1

CoordinateTexts == UNION {[1..n -> Chars] : n \in 0..MaxLen}

(***************************************************************************)
(* String primitives of the JavaScript runtime, as the code uses them.     *)
(***************************************************************************)
RECURSIVE TrimStart(_)
TrimStart(s) ==
    IF s # <<>> /\ IsWs(Head(s)) THEN TrimStart(Tail(s)) ELSE s

RECURSIVE TrimEnd(_)
TrimEnd(s) ==
    IF s # <<>> /\ IsWs(s[Len(s)]) THEN TrimEnd(SubSeq(s, 1, Len(s) - 1)) ELSE s

\* String.prototype.trim
Trim(s) == TrimEnd(TrimStart(s))

\* String.prototype.split(/\s+/): the pieces between maximal whitespace runs,
\* an empty piece before a leading run and after a trailing one included
RECURSIVE SplitWsFrom(_, _, _, _)
SplitWsFrom(s, i, cur, acc) ==
    IF i > Len(s) THEN Append(acc, cur)
    ELSE IF IsWs(s[i])
         THEN IF i > 1 /\ IsWs(s[i - 1])
              THEN SplitWsFrom(s, i + 1, cur, acc)
              ELSE SplitWsFrom(s, i + 1, <<>>, Append(acc, cur))
         ELSE SplitWsFrom(s, i + 1, Append(cur, s[i]), acc)

SplitWs(s) == SplitWsFrom(s, 1, <<>>, <<>>)

\* String.prototype.split(','): every comma separates
RECURSIVE SplitCommaFrom(_, _, _, _)
SplitCommaFrom(s, i, cur, acc) ==
    IF i > Len(s) THEN Append(acc, cur)
    ELSE IF s[i] = ","
         THEN SplitCommaFrom(s, i + 1, <<>>, Append(acc, cur))
         ELSE SplitCommaFrom(s, i + 1, Append(cur, s[i]), acc)

SplitComma(s) == SplitCommaFrom(s, 1, <<>>, <<>>)

\* the value of the longest run of digits s starts with, after digits worth v
RECURSIVE DigitsValue(_, _)
DigitsValue(s, v) ==
    IF s # <<>> /\ IsDigit(Head(s))
    THEN DigitsValue(Tail(s), 10 * v + DigitVal(Head(s)))
    ELSE v

\* parseFloat: the number the longest numeric prefix denotes (over Chars: an
\* optional sign, then digits), NaN when there is none; parseFloat(undefined)
\* is NaN
ParseFloat(s) ==
    IF s = Undefined THEN NaN
    ELSE IF s # <<>> /\ IsDigit(Head(s)) THEN Num(DigitsValue(s, 0))
    ELSE IF Len(s) >= 2 /\ Head(s) = "-" /\ IsDigit(s[2]) THEN Num(0 - DigitsValue(Tail(s), 0))
    ELSE NaN

\* const [longitude, latitude] = parts: a missing element is undefined
ElementAt(parts, k) == IF k <= Len(parts) THEN parts[k] ELSE Undefined

(***************************************************************************)
(* parseCoordinates                                                        *)
(***************************************************************************)
ToPair(coord) ==
    LET parts == SplitComma(coord)
        longitude == ElementAt(parts, 1)
        latitude == ElementAt(parts, 2)
    IN  <<ParseFloat(longitude), ParseFloat(latitude)>>

\* parseCoordinates that splits the untrimmed text
ParseCoordinatesUntrimmed(str) ==
    IF str = <<>> \/ Trim(str) = <<>>
    THEN <<>>
    ELSE LET coordinateStringArray == SplitWs(str)
         IN  [k \in 1..Len(coordinateStringArray) |-> ToPair(coordinateStringArray[k])]

\* parseCoordinates that drops the pairs with a component that is no number
ParseCoordinatesDroppingMalformed(str) ==
    IF str = <<>> \/ Trim(str) = <<>>
    THEN <<>>
    ELSE LET coordinateStringArray == SplitWs(Trim(str))
             pairs == [k \in 1..Len(coordinateStringArray) |-> ToPair(coordinateStringArray[k])]
             BothFinite(pair) == IsFinite(pair[1]) /\ IsFinite(pair[2])
         IN  SelectSeq(pairs, BothFinite)

ParseCoordinates(str) ==
    IF str = <<>> \/ Trim(str) = <<>>
    THEN <<>>
    ELSE LET coordinateStringArray == SplitWs(Trim(str))
         IN  [k \in 1..Len(coordinateStringArray) |-> ToPair(coordinateStringArray[k])]


(***************************************************************************)
(* The KML pipeline: parseKmlData, getCoordinateString,                    *)
(* transformKmlFeaturesToObservationZones, fetchAlternateObservationZones  *)
(***************************************************************************)
\* most placemarks of an enumerated document
MaxPlacemarks == 2

\* the texts a <coordinates> element holds in the enumerated documents:
\* "1,1 -1,1" (every component a number) and "1, x" (components that are not)
FiniteText == <<"1", ",", "1", " ", "-", "1", ",", "1">>
MalformedText == <<"1", ",", " ", "x">>

\* a Polygon or MultiGeometry sub-node: absent, or present with its text
GeometryNodes == {<<>>, <<FiniteText>>, <<MalformedText>>}

\* placemark.name._text: empty, or a name
PlacemarkNames == {"", "Zone A"}

Placemarks ==
    [name : PlacemarkNames, Polygon : GeometryNodes, MultiGeometry : GeometryNodes]

CenterIds == {"NWAC", "SNFAC"}

\* a fetched KML text: not XML at all; XML whose tree lacks
\* kml.Document.Folder.Placemark (the empty text is one); or a document
KmlTexts ==
    {[wellFormed |-> FALSE, hasPlacemarks |-> FALSE, placemarks |-> <<>>],
     [wellFormed |-> TRUE, hasPlacemarks |-> FALSE, placemarks |-> <<>>]}
    \cup {[wellFormed |-> TRUE, hasPlacemarks |-> TRUE, placemarks |-> ps] :
            ps \in UNION {[1..n -> Placemarks] : n \in 0..MaxPlacemarks}}

EmptyFeatureCollection == [type |-> "FeatureCollection", features |-> <<>>]

LogRecord(sink, level, msg, index) ==
    [sink |-> sink, level |-> level, msg |-> msg, index |-> index]

\* the index field of a record that names no feature
NoIndex == 0 - 1

\* xml2json throws on text that is not XML
Xml2JsonThrows(text) == ~text.wellFormed

\* KMLFileSchema.safeParse(...).success
KMLFileSchemaAccepts(text) == text.wellFormed /\ text.hasPlacemarks

\* observationZonesPropertiesSchema.safeParse(baseProperties).success
PropertiesSchemaAccepts(baseProperties) == baseProperties.name \in accepted

GetCoordinateString(placemark) ==
    IF placemark.Polygon # <<>> THEN placemark.Polygon[1]
    ELSE IF placemark.MultiGeometry # <<>> THEN placemark.MultiGeometry[1]
    ELSE <<>>

\* placemark.name._text || 'Unknown KML Zone'
FeatureName(placemark) ==
    IF placemark.name = "" THEN "Unknown KML Zone" ELSE placemark.name

\* the body of placemarks.map((placemark, index) => ...), index zero-based
KmlFeature(placemark, index) ==
    [type |-> "Feature",
     geometry |-> [type |-> "Polygon",
                   coordinates |-> <<ParseCoordinates(GetCoordinateString(placemark))>>],
     id |-> index,
     properties |-> [name |-> FeatureName(placemark)]]

\* parseKmlData: [threw, value, logs]
ParseKmlData(text) ==
    IF Xml2JsonThrows(text)
    THEN [threw |-> TRUE, value |-> EmptyFeatureCollection, logs |-> <<>>]
    ELSE IF ~KMLFileSchemaAccepts(text)
    THEN [threw |-> FALSE, value |-> EmptyFeatureCollection,
          logs |-> <<LogRecord("logger", "error", "Invalid KML file", NoIndex),
                     LogRecord("sentry", "exception", "ZodError", NoIndex)>>]
    ELSE [threw |-> FALSE,
          value |-> [type |-> "FeatureCollection",
                     features |-> [k \in 1..Len(text.placemarks) |->
                                      KmlFeature(text.placemarks[k], k - 1)]],
          logs |-> <<>>]


\* the synthetic identifier of the feature at index i
NumericId(i) == 0 - 100000 - i

UndefinedFeature == [type |-> "undefined"]

IsObservationZoneFeature(feature) == feature.type # "undefined"

\* the map body without the validation: every feature is kept
TransformFeatureUnvalidated(feature, i, center) ==
    [type |-> "Feature",
     geometry |-> feature.geometry,
     id |-> NumericId(i),
     properties |-> [name |-> feature.properties.name, center_id |-> center]]

\* the body of kmlCollection.features.map((feature, i) => ...), i zero-based
TransformFeature(feature, i, center) ==
    LET baseProperties == [name |-> feature.properties.name, center_id |-> center]
    IN  IF ~PropertiesSchemaAccepts(baseProperties)
        THEN UndefinedFeature
        ELSE [type |-> "Feature",
              geometry |-> feature.geometry,
              id |-> NumericId(i),
              properties |-> baseProperties]

\* the error records the map logs, in index order
RECURSIVE TransformLogs(_, _, _)
TransformLogs(features, k, center) ==
    IF k > Len(features) THEN <<>>
    ELSE (IF TransformFeature(features[k], k - 1, center) = UndefinedFeature
          THEN <<LogRecord("logger", "error", "Invalid properties for feature", k - 1)>>
          ELSE <<>>)
         \o TransformLogs(features, k + 1, center)

\* the transform numbering the survivors by their place in the output
TransformNumberingOutput(kmlCollection, center) ==
    LET transformedFeatures ==
            [k \in 1..Len(kmlCollection.features) |->
                TransformFeature(kmlCollection.features[k], k - 1, center)]
        observationZones == SelectSeq(transformedFeatures, IsObservationZoneFeature)
    IN  [value |-> [type |-> "FeatureCollection",
                    features |-> [k \in 1..Len(observationZones) |->
                                     [observationZones[k] EXCEPT !.id = NumericId(k - 1)]]],
         logs |-> TransformLogs(kmlCollection.features, 1, center)]

\* transformKmlFeaturesToObservationZones: [value, logs]
TransformKmlFeaturesToObservationZones(kmlCollection, center) ==
    LET transformedFeatures ==
            [k \in 1..Len(kmlCollection.features) |->
                TransformFeature(kmlCollection.features[k], k - 1, center)]
        observationZones == SelectSeq(transformedFeatures, IsObservationZoneFeature)
    IN  [value |-> [type |-> "FeatureCollection", features |-> observationZones],
         logs |-> TransformLogs(kmlCollection.features, 1, center)]

\* the try/catch of fetchAlternateObservationZones on a fetched text:
\* [value, logs]
ParseAndTransform(text, center) ==
    LET parsed == ParseKmlData(text)
        zones == TransformKmlFeaturesToObservationZones(parsed.value, center)
    IN  IF parsed.threw
        THEN [value |-> EmptyFeatureCollection,
              logs |-> <<LogRecord("logger", "error", "Error parsing KML data", NoIndex)>>]
        ELSE [value |-> zones.value,
              logs |-> parsed.logs \o zones.logs
                       \o <<LogRecord("logger", "debug", "Fetched alternate observation zones", NoIndex)>>]

(***************************************************************************)
(* fetchNWACWeatherForecast                                                *)
(***************************************************************************)
ForecastIds == {1, 2}

\* the JSON body of a forecast answer: whether the meta envelope and
\* objects.mountain_weather_forecast.creation_date are there, and which
\* forecast it carries
ForecastBodies == [hasMeta : BOOLEAN, hasCreationDate : BOOLEAN, id : ForecastIds]

\* nwacWeatherForecastMetaSchema.safeParse(data).success
ForecastSchemaAccepts(data) == data.hasMeta /\ data.hasCreationDate

\* parseResult.data.objects: creation_date rewritten by the schema's transform
ForecastObjects(data) == [id |-> data.id, creation_date |-> "T+00:00"]

Returned(value) == [kind |-> "value", error |-> "none", value |-> value]
Thrown(error) == [kind |-> "error", error |-> error, value |-> <<>>]

\* fetchNWACWeatherForecast handing back the body it could not validate
FetchNWACWeatherForecastUnvalidated(transport, data) ==
    IF transport
    THEN [outcome |-> Thrown("AxiosError"), logs |-> <<>>]
    ELSE [outcome |-> Returned(ForecastObjects(data)), logs |-> <<>>]

\* what fetchNWACWeatherForecast does once axios.get has resolved with data
\* (transport |-> FALSE) or rejected: [outcome, logs]
FetchNWACWeatherForecastSettles(transport, data) ==
    IF transport
    THEN [outcome |-> Thrown("AxiosError"), logs |-> <<>>]
    ELSE IF ~ForecastSchemaAccepts(data)
    THEN [outcome |-> Thrown("ZodError"),
          logs |-> <<LogRecord("logger", "warn", "unparsable weather forecast", NoIndex),
                     LogRecord("sentry", "exception", "ZodError", NoIndex)>>]
    ELSE [outcome |-> Returned(ForecastObjects(data)), logs |-> <<>>]

\* fetchAlternateObservationZones with safeFetch awaited inside the try block
FetchAlternateObservationZonesAllInTry(transport, text, center) ==
    IF transport
    THEN [outcome |-> Returned(EmptyFeatureCollection),
          logs |-> <<LogRecord("logger", "error", "Error parsing KML data", NoIndex)>>]
    ELSE [outcome |-> Returned(ParseAndTransform(text, center).value),
          logs |-> ParseAndTransform(text, center).logs]

\* fetchAlternateObservationZones without the try block
FetchAlternateObservationZonesNoCatch(transport, text, center) ==
    IF transport
    THEN [outcome |-> Thrown("AxiosError"), logs |-> <<>>]
    ELSE IF ParseKmlData(text).threw
    THEN [outcome |-> Thrown("Error"), logs |-> <<>>]
    ELSE [outcome |-> Returned(ParseAndTransform(text, center).value),
          logs |-> ParseAndTransform(text, center).logs]

\* what fetchAlternateObservationZones does once safeFetch has resolved with
\* text (transport |-> FALSE) or rejected: [outcome, logs]. safeFetch is
\* awaited before the try block is entered.
FetchAlternateObservationZonesSettles(transport, text, center) ==
    IF transport
    THEN [outcome |-> Thrown("AxiosError"), logs |-> <<>>]
    ELSE [outcome |-> Returned(ParseAndTransform(text, center).value),
          logs |-> ParseAndTransform(text, center).logs]

\* safeFetch(() => axios.get(url), ...): one request, whose rejection it
\* passes on
SafeFetchRequests == 1

(***************************************************************************)
(* SpecFetch: one call of either fetch function                            *)
(***************************************************************************)
FeatureNames == {FeatureName(p) : p \in Placemarks}

InitFetch ==
    /\ IdleCoord
    /\ IdleCache
    /\ fn \in {"kml", "nwac"}
    /\ pc = "idle"
    /\ center_id \in (IF fn = "kml" THEN CenterIds ELSE {"NWAC"})
    /\ accepted \in (IF fn = "kml" THEN SUBSET FeatureNames ELSE {{}})
    /\ response = [kind |-> "none"]
    /\ result = [kind |-> "none"]
    /\ logs = <<>>
    /\ requests = 0

CallFetchAlternateObservationZones ==
    /\ fn = "kml" /\ pc = "idle"
    /\ logs' = Append(logs, LogRecord("logger", "debug", "Fetching alternate observation zones", NoIndex))
    /\ requests' = requests + SafeFetchRequests
    /\ pc' = "awaiting"
    /\ UNCHANGED <<fn, center_id, accepted, response, result, varsCoord, varsCache>>

SafeFetchSettles ==
    /\ fn = "kml" /\ pc = "awaiting"
    /\ \E transport \in BOOLEAN, text \in KmlTexts :
          LET settled == FetchAlternateObservationZonesSettles(transport, text, center_id)
          IN  /\ transport => text = [wellFormed |-> FALSE, hasPlacemarks |-> FALSE, placemarks |-> <<>>]
              /\ response' = [kind |-> IF transport THEN "transport" ELSE "kml", body |-> text]
              /\ result' = settled.outcome
              /\ logs' = logs \o settled.logs
              /\ pc' = IF settled.outcome.kind = "value" THEN "returned" ELSE "thrown"
    /\ UNCHANGED <<fn, center_id, accepted, requests, varsCoord, varsCache>>

CallFetchNWACWeatherForecast ==
    /\ fn = "nwac" /\ pc = "idle"
    /\ requests' = requests + 1
    /\ pc' = "awaiting"
    /\ UNCHANGED <<fn, center_id, accepted, response, result, logs, varsCoord, varsCache>>

AxiosGetSettles ==
    /\ fn = "nwac" /\ pc = "awaiting"
    /\ \E transport \in BOOLEAN, data \in ForecastBodies :
          LET settled == FetchNWACWeatherForecastSettles(transport, data)
          IN  /\ transport => data = [hasMeta |-> FALSE, hasCreationDate |-> FALSE, id |-> 1]
              /\ response' = [kind |-> IF transport THEN "transport" ELSE "json", body |-> data]
              /\ result' = settled.outcome
              /\ logs' = logs \o settled.logs
              /\ pc' = IF settled.outcome.kind = "value" THEN "returned" ELSE "thrown"
    /\ UNCHANGED <<fn, center_id, accepted, requests, varsCoord, varsCache>>

NextFetch ==
    \/ CallFetchAlternateObservationZones
    \/ SafeFetchSettles
    \/ CallFetchNWACWeatherForecast
    \/ AxiosGetSettles

SpecFetch == InitFetch /\ [][NextFetch]_vars

(***************************************************************************)
(* The query cache: useNWACWeatherForecast, prefetchNWACWeatherForecast,   *)
(* useAlternateObservationZones, prefetchAlternateObservationZones, with   *)
(* useQuery and QueryClient.prefetchQuery of @tanstack/react-query (the    *)
(* version whose retention option is called cacheTime) as they document    *)
(* their behaviour. The clock is read at instants TickMs apart; a remote   *)
(* request settles within the instant it was issued at.                    *)
(***************************************************************************)
\* most invocations of a queryFn in one behaviour
MaxFetches == 3
\* most hook consumers mounted at once
MaxObservers == 2
\* most advances of the clock in Spec
MaxTicks == 1
\* the retry limits the query client may be configured to give a hook's query
RetryLimits == {0, 1}

Max(a, b) == IF a >= b THEN a ELSE b

Minute == 60 * 1000
Hour == 60 * Minute
TickMs == 30 * Minute

\* cacheTime: Infinity, beyond every instant of the model
Infinity == 2 ^ 30
\* the cacheTime of a query whose options name none
DefaultCacheTime == 5 * Minute
\* no timestamp: no data yet, or no timer pending
NoTime == 0 - 1
\* the writer of data no fetch produced
InitialDataWriter == 0 - 1

\* the hook's options without the staleTime
HookOptionsNoStaleTime(src) ==
    IF src = "nwac"
    THEN [staleTime |-> 0, cacheTime |-> 24 * 60 * 60 * 1000,
          initialData |-> <<>>, retry |-> retry]
    ELSE [staleTime |-> 0, cacheTime |-> Infinity,
          initialData |-> <<EmptyFeatureCollection>>, retry |-> retry]

\* the options the hook hands to useQuery
HookOptions(src) ==
    IF src = "nwac"
    THEN [staleTime |-> 60 * 60 * 1000, cacheTime |-> 24 * 60 * 60 * 1000,
          initialData |-> <<>>, retry |-> retry]
    ELSE [staleTime |-> 0, cacheTime |-> Infinity,
          initialData |-> <<EmptyFeatureCollection>>, retry |-> retry]

\* the options the prefetch variant hands to prefetchQuery, which never retries
PrefetchOptions(src) ==
    IF src = "nwac"
    THEN [staleTime |-> 0, cacheTime |-> DefaultCacheTime,
          initialData |-> <<>>, retry |-> 0]
    ELSE [staleTime |-> 24 * 60 * 60 * 1000, cacheTime |-> Infinity,
          initialData |-> <<>>, retry |-> 0]

\* the parameters both variants are called with
NwacHost == "https://nwac.us"
Url == "https://example.org/zones.kml"
RequestedDate == [day |-> 3, hour |-> 7]

\* requestedTimeToUTCDate: the Date of a requested time
RequestedTimeToUTCDate(requestedTime) == requestedTime.date

\* nominalNWACWeatherForecastDate: the coarse bucket a Date falls in
NominalNWACWeatherForecastDate(date) == date.day

\* queryKey of useNWACWeatherForecast.ts
NwacQueryKey(nwacHost, zone_id, requestedTime) ==
    <<"nwac-weather", nwacHost, zone_id, NominalNWACWeatherForecastDate(requestedTime)>>

\* queryKey of useAlternateObservationZones.ts
KmlQueryKey(url) == <<"alternateZoneKML", url>>

\* the key the hook builds
HookKey(src) ==
    IF src = "nwac"
    THEN NwacQueryKey(NwacHost, 1, RequestedTimeToUTCDate([kind |-> "date", date |-> RequestedDate]))
    ELSE KmlQueryKey(Url)

\* the key the prefetch variant builds
PrefetchKey(src) ==
    IF src = "nwac"
    THEN NwacQueryKey(NwacHost, 1, RequestedDate)
    ELSE KmlQueryKey(Url)

\* a timer of cacheTime milliseconds is set unless cacheTime is Infinity
GcAt(cacheTime) == IF cacheTime >= Infinity THEN NoTime ELSE now + cacheTime

\* a query as the cache creates it: seeded with initialData when the options
\* carry it, its removal timer running
NewQuery(options) ==
    [data |-> options.initialData,
     writer |-> IF options.initialData # <<>> THEN InitialDataWriter ELSE 0,
     dataUpdatedAt |-> IF options.initialData # <<>> THEN now ELSE NoTime,
     error |-> "none",
     status |-> IF options.initialData # <<>> THEN "success" ELSE "loading",
     fetchStatus |-> "idle",
     observers |-> 0,
     cacheTime |-> Max(0, options.cacheTime),
     gcAt |-> GcAt(Max(0, options.cacheTime))]

EnsureQuery(qs, key, options) ==
    IF key \in DOMAIN qs THEN qs ELSE qs @@ (key :> NewQuery(options))

\* data is stale once staleTime has passed since it was written
IsStaleByTime(q, staleTime) ==
    q.dataUpdatedAt = NoTime \/ now >= q.dataUpdatedAt + staleTime

\* a fetch that starts whether or not one is under way
FetchStartsAlways(q) == TRUE

\* Query.fetch runs the queryFn unless a fetch of the query is under way
FetchStarts(q) == q.fetchStatus = "idle"

\* the query once its fetch has started with these options
Fetching(q, options) ==
    [q EXCEPT !.fetchStatus = "fetching",
              !.cacheTime = Max(q.cacheTime, options.cacheTime),
              !.status = IF q.dataUpdatedAt = NoTime THEN "loading" ELSE @,
              !.error = IF q.dataUpdatedAt = NoTime THEN "none" ELSE @]

\* the queryFn of prefetchNWACWeatherForecast up to its return: it logs
\* 'prefetching', calls fetchNWACWeatherForecast without awaiting it, logs
\* 'finished prefetching' and returns the pending promise
NwacPrefetchQueryFn == [prefetching |-> TRUE, finished |-> "whileInFlight"]

\* the queryFn of prefetchAlternateObservationZones up to its await: it logs
\* 'prefetching' and awaits fetchAlternateObservationZones
KmlPrefetchQueryFn == [prefetching |-> TRUE, finished |-> "no"]

\* the queryFn of either hook: the fetch function itself
HookQueryFn == [prefetching |-> FALSE, finished |-> "no"]

QueryFnLogs(src, origin) ==
    IF origin = "hook" THEN HookQueryFn
    ELSE IF src = "nwac" THEN NwacPrefetchQueryFn ELSE KmlPrefetchQueryFn

\* one invocation of a queryFn, its remote request in flight
Invocation(src, origin, key, attempt, retryLimit) ==
    [origin |-> origin, key |-> key, attempt |-> attempt, retryLimit |-> retryLimit,
     state |-> "inflight", answer |-> "pending", error |-> "none", value |-> <<>>,
     prefetching |-> QueryFnLogs(src, origin).prefetching,
     finished |-> QueryFnLogs(src, origin).finished]

InFlight == {id \in 1..Len(calls) : calls[id].state = "inflight"}

\* the texts the KML endpoint answers with in the cache specifications
SampleKmlTexts ==
    {[wellFormed |-> FALSE, hasPlacemarks |-> FALSE, placemarks |-> <<>>],
     [wellFormed |-> TRUE, hasPlacemarks |-> FALSE, placemarks |-> <<>>],
     [wellFormed |-> TRUE, hasPlacemarks |-> TRUE,
      placemarks |-> <<[name |-> "Zone A", Polygon |-> <<FiniteText>>, MultiGeometry |-> <<>>]>>]}

Bodies(src) == IF src = "nwac" THEN ForecastBodies ELSE SampleKmlTexts

\* how the remote end answered: not at all, with a body the schema rejects,
\* or with a valid one
Answer(src, transport, body) ==
    IF transport THEN "transport"
    ELSE IF src = "nwac"
         THEN (IF ForecastSchemaAccepts(body) THEN "valid" ELSE "mismatch")
         ELSE (IF KMLFileSchemaAccepts(body) THEN "valid" ELSE "mismatch")

\* the promise of the fetch function settles
FetchSettles(src, transport, body) ==
    IF src = "nwac"
    THEN FetchNWACWeatherForecastSettles(transport, body).outcome
    ELSE FetchAlternateObservationZonesSettles(transport, body, center_id).outcome

\* the query once its fetch has succeeded with value, written by invocation id
Succeeded(q, id, value) ==
    [q EXCEPT !.data = <<value>>, !.writer = id, !.dataUpdatedAt = now,
              !.error = "none", !.status = "success", !.fetchStatus = "idle",
              !.gcAt = GcAt(q.cacheTime)]

\* the query once its fetch has failed for good: the data stays
Failed(q, error) ==
    [q EXCEPT !.error = error, !.status = "error", !.fetchStatus = "idle",
              !.gcAt = GcAt(q.cacheTime)]

\* the invocation once settled; the queryFn of prefetchAlternateObservationZones
\* logs 'finished prefetching' when its await returns
Settled(c, src, answer, outcome) ==
    [c EXCEPT !.state = IF outcome.kind = "value" THEN "resolved" ELSE "rejected",
              !.answer = answer,
              !.error = outcome.error,
              !.value = IF outcome.kind = "value" THEN <<outcome.value>> ELSE <<>>,
              !.finished = IF c.origin = "prefetch" /\ src = "kml" /\ outcome.kind = "value"
                           THEN "afterResolve" ELSE @]

\* a failed attempt is retried while the retry limit allows and a consumer
\* is mounted
Retries(c, q) == c.attempt < c.retryLimit /\ q.observers > 0

InitCache ==
    /\ IdleCoord
    /\ fn = "none" /\ pc = "idle"
    /\ center_id = "NWAC"
    /\ accepted = FeatureNames
    /\ response = [kind |-> "none"] /\ result = [kind |-> "none"]
    /\ logs = <<>> /\ requests = 0
    /\ source \in {"nwac", "kml"}
    /\ retry \in RetryLimits
    /\ now = 0 /\ ticks = 0
    /\ queries = <<>>
    /\ calls = <<>>
    /\ lastSettled = 0
    /\ lastActive = 0
    /\ plan = {}
    /\ requestLog = <<>>

\* a component using the hook mounts: the observer subscribes, and fetches
\* when the query has no data or stale data
HookMounts(key, options) ==
    LET qs == EnsureQuery(queries, key, options)
        q == [qs[key] EXCEPT !.observers = @ + 1, !.gcAt = NoTime]
        starts == IsStaleByTime(q, options.staleTime) /\ FetchStarts(q)
    IN  /\ q.observers <= MaxObservers
        /\ starts => Len(calls) < MaxFetches
        /\ queries' = [qs EXCEPT ![key] = IF starts THEN Fetching(q, options) ELSE q]
        /\ calls' = IF starts
                    THEN Append(calls, Invocation(source, "hook", key, 0, options.retry))
                    ELSE calls
        /\ lastActive' = now

MountHook ==
    /\ plan = {}
    /\ HookMounts(HookKey(source), HookOptions(source))
    /\ UNCHANGED <<source, retry, now, ticks, lastSettled, plan, requestLog, varsCoord, varsFetch>>

\* a component using the hook unmounts: the last observer to go starts the
\* removal timer
UnmountHook ==
    /\ \E key \in DOMAIN queries :
          /\ queries[key].observers > 0
          /\ queries' = [queries EXCEPT ![key] =
                            [@ EXCEPT !.observers = @ - 1,
                                      !.gcAt = IF queries[key].observers = 1
                                               THEN GcAt(queries[key].cacheTime) ELSE @]]
    /\ lastActive' = now
    /\ UNCHANGED <<source, retry, now, ticks, calls, lastSettled, plan, requestLog, varsCoord, varsFetch>>

\* prefetchQuery: fetches when the query has no data or stale data, and
\* consumes the result, failure included
PrefetchRuns(key, options) ==
    LET qs == EnsureQuery(queries, key, options)
        q == qs[key]
        starts == IsStaleByTime(q, options.staleTime) /\ FetchStarts(q)
    IN  /\ starts => Len(calls) < MaxFetches
        /\ queries' = [qs EXCEPT ![key] = IF starts THEN Fetching(q, options) ELSE q]
        /\ calls' = IF starts
                    THEN Append(calls, Invocation(source, "prefetch", key, 0, options.retry))
                    ELSE calls

Prefetch ==
    /\ plan = {}
    /\ PrefetchRuns(PrefetchKey(source), PrefetchOptions(source))
    /\ UNCHANGED <<source, retry, now, ticks, lastSettled, lastActive, plan, requestLog, varsCoord, varsFetch>>

\* the remote request of invocation id settles, and with it the queryFn
RequestSettles(id) ==
    LET c == calls[id]
        q == queries[c.key]
    IN  \E transport \in BOOLEAN, body \in Bodies(source) :
          LET outcome == FetchSettles(source, transport, body)
              done == Settled(c, source, Answer(source, transport, body), outcome)
          IN  /\ transport => body = CHOOSE b \in Bodies(source) : TRUE
              /\ IF outcome.kind = "value"
                 THEN /\ queries' = [queries EXCEPT ![c.key] = Succeeded(q, id, outcome.value)]
                      /\ calls' = [calls EXCEPT ![id] = done]
                 ELSE IF Retries(c, q)
                 THEN /\ Len(calls) < MaxFetches
                      /\ queries' = queries
                      /\ calls' = Append([calls EXCEPT ![id] = done],
                                         Invocation(source, c.origin, c.key, c.attempt + 1, c.retryLimit))
                 ELSE /\ queries' = [queries EXCEPT ![c.key] = Failed(q, outcome.error)]
                      /\ calls' = [calls EXCEPT ![id] = done]

Settle ==
    /\ \E id \in InFlight :
          /\ RequestSettles(id)
          /\ lastSettled' = id
    /\ lastActive' = now
    /\ UNCHANGED <<source, retry, now, ticks, plan, requestLog, varsCoord, varsFetch>>

\* the removal timer of a query fires: the query goes if it has no observer
\* and is not fetching
Expired(q, t) == q.gcAt # NoTime /\ q.gcAt <= t

ClockAdvances(delta) ==
    /\ InFlight = {}
    /\ now' = now + delta
    /\ ticks' = ticks + 1
    /\ LET gone == {k \in DOMAIN queries :
                      Expired(queries[k], now + delta) /\ queries[k].observers = 0
                        /\ queries[k].fetchStatus = "idle"}
       IN  queries' = [k \in DOMAIN queries \ gone |->
                          IF Expired(queries[k], now + delta)
                          THEN [queries[k] EXCEPT !.gcAt = NoTime]
                          ELSE queries[k]]
    /\ lastActive' = IF \E k \in DOMAIN queries : queries[k].observers > 0
                     THEN now + delta ELSE lastActive

Tick ==
    /\ plan = {}
    /\ ticks < MaxTicks
    /\ \E delta \in {TickMs, 24 * Hour} : ClockAdvances(delta)
    /\ UNCHANGED <<source, retry, calls, lastSettled, plan, requestLog, varsCoord, varsFetch>>

Next ==
    \/ MountHook
    \/ UnmountHook
    \/ Prefetch
    \/ Settle
    \/ Tick

Spec == InitCache /\ [][Next]_vars

(***************************************************************************)
(* SpecTimeline: the forecast hook requested at planned instants only,     *)
(* each request a mount of the hook; consumers unmount at any instant      *)
(***************************************************************************)
\* the instants the cache scenario names: 0, 30 min, 90 min, 25 h
ScenarioTimes == {0, 30 * Minute, 90 * Minute, 25 * Hour}

Plans == {p \in SUBSET ScenarioTimes : 0 \in p /\ 25 * Hour \in p}

InitTimeline ==
    /\ IdleCoord
    /\ fn = "none" /\ pc = "idle"
    /\ center_id = "NWAC"
    /\ accepted = FeatureNames
    /\ response = [kind |-> "none"] /\ result = [kind |-> "none"]
    /\ logs = <<>> /\ requests = 0
    /\ source = "nwac"
    /\ retry \in RetryLimits
    /\ now = 0 /\ ticks = 0
    /\ queries = <<>>
    /\ calls = <<>>
    /\ lastSettled = 0
    /\ lastActive = 0
    /\ plan \in Plans
    /\ requestLog = <<>>

RequestedNow == requestLog # <<>> /\ requestLog[Len(requestLog)].at = now

\* what a request of the hook meets: whether the key had no entry, how long
\* the entry had been out of use, how many consumers were mounted, the invocation whose value is handed back at
\* once (0: none, the caller waits), and the invocations the request starts
RequestAtPlannedTime ==
    LET key == HookKey(source)
    IN  /\ now \in plan
        /\ ~RequestedNow
        /\ HookMounts(key, HookOptions(source))
        /\ requestLog' = Append(requestLog,
              [at |-> now,
               cold |-> key \notin DOMAIN queries,
               idleFor |-> now - lastActive,
               mounted |-> IF key \in DOMAIN queries THEN queries[key].observers ELSE 0,
               served |-> IF key \in DOMAIN queries THEN queries[key].writer ELSE 0,
               started |-> Len(calls') - Len(calls)])
        /\ UNCHANGED <<source, retry, now, ticks, lastSettled, plan, varsCoord, varsFetch>>

TickTimeline ==
    /\ plan # {}
    /\ now \in plan => RequestedNow
    /\ \E t \in plan : t > now
    /\ ClockAdvances(TickMs)
    /\ UNCHANGED <<source, retry, calls, lastSettled, plan, requestLog, varsCoord, varsFetch>>

NextTimeline ==
    \/ RequestAtPlannedTime
    \/ UnmountHook
    \/ Settle
    \/ TickTimeline

SpecTimeline == InitTimeline /\ [][NextTimeline]_vars

(***************************************************************************)
(* SpecCoord: parseCoordinates on every coordinate text up to MaxLen       *)
(***************************************************************************)
InitCoord ==
    /\ coordinateString \in CoordinateTexts
    /\ coordinates = <<>>
    /\ returned = FALSE
    /\ IdleFetch
    /\ IdleCache

CallParseCoordinates ==
    /\ ~returned
    /\ coordinates' = ParseCoordinates(coordinateString)
    /\ returned' = TRUE
    /\ UNCHANGED <<coordinateString, varsFetch, varsCache>>

NextCoord == CallParseCoordinates

SpecCoord == InitCoord /\ [][NextCoord]_vars

(***************************************************************************)
(* What the claims speak of, stated without the code's own steps           *)
(***************************************************************************)
\* the k-th smallest element of a set of numbers
NthSmallest(S, k) == CHOOSE x \in S : Cardinality({y \in S : y < x}) = k - 1

\* a token is a maximal run of non-whitespace characters
TokenStarts(s) == {i \in 1..Len(s) : ~IsWs(s[i]) /\ (i = 1 \/ IsWs(s[i - 1]))}
TokenEnds(s) == {i \in 1..Len(s) : ~IsWs(s[i]) /\ (i = Len(s) \/ IsWs(s[i + 1]))}
TokenCount(s) == Cardinality(TokenStarts(s))
Token(s, k) == SubSeq(s, NthSmallest(TokenStarts(s), k), NthSmallest(TokenEnds(s), k))

\* the j-th comma-separated component of a token, Undefined when it has fewer
CommaPositions(tok) == {i \in 1..Len(tok) : tok[i] = ","}
ComponentStart(tok, j) == IF j = 1 THEN 1 ELSE NthSmallest(CommaPositions(tok), j - 1) + 1
ComponentEnd(tok, j) ==
    IF j = Cardinality(CommaPositions(tok)) + 1 THEN Len(tok)
    ELSE NthSmallest(CommaPositions(tok), j) - 1
Component(tok, j) ==
    IF j > Cardinality(CommaPositions(tok)) + 1 THEN Undefined
    ELSE SubSeq(tok, ComponentStart(tok, j), ComponentEnd(tok, j))

IsBlank(s) == \A i \in 1..Len(s) : IsWs(s[i])

\* one pair per token, in order: the token's first two components as numbers
PairsOfTokens(s, pairs) ==
    /\ Len(pairs) = TokenCount(s)
    /\ \A k \in 1..Len(pairs) :
          pairs[k] = <<ParseFloat(Component(Token(s, k), 1)),
                       ParseFloat(Component(Token(s, k), 2))>>

\* C7: parseCoordinates returns [] for an empty or whitespace-only text, and
\* otherwise one (longitude, latitude) pair per whitespace-separated token, in
\* input order, from the token's first two comma-separated components, a
\* component that is no number giving NaN: the length is the token count.
C7_ParseCoordinatesPerToken ==
    returned =>
        /\ IsBlank(coordinateString) => coordinates = <<>>
        /\ PairsOfTokens(coordinateString, coordinates)

\* a text of two tokens, one with an altitude, one with a component that is
\* no number, has been parsed
C7_Witness ==
    /\ returned
    /\ Len(coordinates) = 2
    /\ \E k \in 1..2 : Cardinality(CommaPositions(Token(coordinateString, k))) = 2
    /\ \E k \in 1..2 : coordinates[k][1].nan /\ ~coordinates[k][2].nan

\* the fetched text was a document that passed KMLFileSchema
ValidKmlReturned ==
    /\ fn = "kml" /\ pc = "returned"
    /\ response.kind = "kml" /\ response.body.wellFormed /\ response.body.hasPlacemarks

\* zero-based ordinal of the placemark a synthetic identifier names
OrdinalOf(id) == 0 - 100000 - id

\* C1: a document that passes validation and has n placemarks gives at most n
\* features, each with id -100000 - i for the zero-based ordinal i of its own
\* placemark in the document: ids are negative and pairwise distinct.
C1_IdsFromDocumentOrdinal ==
    ValidKmlReturned =>
        LET placemarks == response.body.placemarks
            features == result.value.features
        IN  /\ Len(features) <= Len(placemarks)
            /\ \A k \in 1..Len(features) :
                  LET i == OrdinalOf(features[k].id)
                  IN  /\ i \in 0..(Len(placemarks) - 1)
                      /\ features[k].id < 0
                      /\ features[k].properties.name = FeatureName(placemarks[i + 1])
                      /\ features[k].geometry.coordinates[1]
                           = ParseCoordinates(GetCoordinateString(placemarks[i + 1]))
            /\ \A k, l \in 1..Len(features) : k # l => features[k].id # features[l].id

\* the first placemark was dropped and the second, of another name and
\* another ring, survives at output position one with the id of ordinal one
C1_Witness ==
    /\ ValidKmlReturned
    /\ Len(response.body.placemarks) = 2
    /\ FeatureName(response.body.placemarks[1]) # FeatureName(response.body.placemarks[2])
    /\ GetCoordinateString(response.body.placemarks[1]) # GetCoordinateString(response.body.placemarks[2])
    /\ Len(result.value.features) = 1
    /\ result.value.features[1].id = 0 - 100001

\* the fetch succeeded with a text that is not XML or lacks Placemark
MalformedKmlFetched ==
    /\ fn = "kml" /\ pc \in {"returned", "thrown"}
    /\ response.kind = "kml"
    /\ ~(response.body.wellFormed /\ response.body.hasPlacemarks)

\* C2: on a malformed or empty KML text fetchAlternateObservationZones
\* resolves to exactly the empty feature collection, does not raise, and an
\* error record is logged.
C2_MalformedKmlGivesEmpty ==
    MalformedKmlFetched =>
        /\ pc = "returned"
        /\ result = Returned([type |-> "FeatureCollection", features |-> <<>>])
        /\ \E k \in 1..Len(logs) : logs[k].sink = "logger" /\ logs[k].level = "error"

\* a text that is XML but lacks Placemark has been answered
C2_Witness ==
    /\ MalformedKmlFetched
    /\ response.body.wellFormed
    /\ pc = "returned"

\* C6: a transport failure makes either fetch function fail with the transport
\* error: it is not turned into a value, a validation failure never carries
\* it, and the function issues one request only.
C6_TransportErrorPropagates ==
    /\ requests <= 1
    /\ response.kind = "transport" =>
          /\ pc = "thrown"
          /\ result = Thrown("AxiosError")
          /\ requests = 1
    /\ (pc \in {"returned", "thrown"} /\ response.kind # "transport") =>
          result.error # "AxiosError"

\* the KML fetch has failed at the transport level
C6_Witness ==
    /\ fn = "kml" /\ pc = "thrown" /\ response.kind = "transport"

\* the placemark a surviving feature was made from
PlacemarkOf(feature) == response.body.placemarks[OrdinalOf(feature.id) + 1]

\* C8 as stated: every coordinate pair of every emitted feature has two finite
\* components, malformed tokens having been dropped.
C8_AllPairsFinite ==
    ValidKmlReturned =>
        \A k \in 1..Len(result.value.features) :
            LET ring == result.value.features[k].geometry.coordinates[1]
            IN  \A j \in 1..Len(ring) : IsFinite(ring[j][1]) /\ IsFinite(ring[j][2])

\* C8 amended: a malformed token is kept: the ring of every emitted feature has
\* one pair per token of its placemark's coordinate text, a component being
\* NaN exactly where the token's component is no number; the placemark is
\* emitted whenever its properties validate.
C8_MalformedTokensKeptAsNaN ==
    ValidKmlReturned =>
        /\ \A k \in 1..Len(result.value.features) :
              PairsOfTokens(GetCoordinateString(PlacemarkOf(result.value.features[k])),
                            result.value.features[k].geometry.coordinates[1])
        /\ \A i \in 1..Len(response.body.placemarks) :
              FeatureName(response.body.placemarks[i]) \in accepted =>
                  \E k \in 1..Len(result.value.features) :
                      result.value.features[k].id = 0 - 100000 - (i - 1)

\* a feature has been emitted whose ring holds a pair with a NaN component
C8_Witness ==
    /\ ValidKmlReturned
    /\ \E k \in 1..Len(result.value.features) :
          LET ring == result.value.features[k].geometry.coordinates[1]
          IN  /\ GetCoordinateString(PlacemarkOf(result.value.features[k])) = MalformedText
              /\ \E j \in 1..Len(ring) : ring[j][2].nan

\* zero-based ordinals of the placemarks whose properties validate
KeptOrdinals ==
    {i \in 0..(Len(response.body.placemarks) - 1) :
        FeatureName(response.body.placemarks[i + 1]) \in accepted}

\* C9: a feature whose properties fail validation is dropped and an error
\* naming its index is logged; every other feature is kept; survivors keep
\* their document order; the call does not fail.
C9_InvalidDroppedOrderKept ==
    (fn = "kml" /\ pc \in {"returned", "thrown"} /\ response.kind = "kml"
        /\ response.body.wellFormed /\ response.body.hasPlacemarks) =>
        LET features == result.value.features
            n == Len(response.body.placemarks)
        IN  /\ pc = "returned"
            /\ {OrdinalOf(features[k].id) : k \in 1..Len(features)} = KeptOrdinals
            /\ Len(features) = Cardinality(KeptOrdinals)
            /\ \A k, l \in 1..Len(features) :
                  k < l => OrdinalOf(features[k].id) < OrdinalOf(features[l].id)
            /\ \A k \in 1..Len(features) :
                  /\ features[k].properties.center_id = center_id
                  /\ features[k].properties.name = FeatureName(PlacemarkOf(features[k]))
            /\ {logs[k].index : k \in {j \in 1..Len(logs) :
                    logs[j].level = "error" /\ logs[j].msg = "Invalid properties for feature"}}
                 = (0..(n - 1)) \ KeptOrdinals

\* of two placemarks the second failed validation, the first survives, and
\* the error record names index 1
C9_Witness ==
    /\ ValidKmlReturned
    /\ Len(response.body.placemarks) = 2
    /\ KeptOrdinals = {0}
    /\ Len(result.value.features) = 1
    /\ \E k \in 1..Len(logs) : logs[k].level = "error" /\ logs[k].index = 1

\* the invocations that have resolved
Resolved == {id \in 1..Len(calls) : calls[id].state = "resolved"}

NoRejection == \A id \in 1..Len(calls) : calls[id].state # "rejected"

FullPlan == plan = {0, 30 * Minute, 90 * Minute, 25 * Hour}

\* the first three requests of the scenario, every fetch succeeding: at t=0
\* nothing is cached and one fetch starts; at 30 min the value of that fetch is
\* handed back and nothing is fetched; at 90 min the same value is handed back
\* and one refetch starts
FirstThreeRequests ==
    /\ Len(requestLog) >= 1 =>
          /\ requestLog[1].at = 0 /\ requestLog[1].cold
          /\ requestLog[1].served = 0 /\ requestLog[1].started = 1
    /\ Len(requestLog) >= 2 =>
          /\ requestLog[2].at = 30 * Minute /\ ~requestLog[2].cold
          /\ requestLog[2].served = 1 /\ requestLog[2].started = 0
    /\ Len(requestLog) >= 3 =>
          /\ requestLog[3].at = 90 * Minute /\ ~requestLog[3].cold
          /\ requestLog[3].served = 1 /\ requestLog[3].started = 1

\* C3 as stated: after requests at 0, 30 min and 90 min, the request at 25 h
\* finds a cold cache and waits for a fresh fetch (read in the claim's favour:
\* when no consumer of the hook is still mounted at 25 h).
C3_ColdAt25h ==
    (FullPlan /\ NoRejection) =>
        /\ FirstThreeRequests
        /\ (Len(requestLog) >= 4 /\ requestLog[4].mounted = 0) =>
              /\ requestLog[4].at = 25 * Hour /\ requestLog[4].cold
              /\ requestLog[4].served = 0 /\ requestLog[4].started = 1

\* C3 amended: the first three requests go as stated; the entry is kept until
\* it has been out of use for 24 hours (no mounted consumer, no settling
\* fetch), so after the 90 min request the request at 25 h is handed the value
\* of the 90 min refetch at once and starts one background refetch; a request
\* finds a cold cache, and waits for the one fetch it starts, only when the
\* entry has been out of use for 24 hours, as at 25 h when the only earlier
\* request was the one at t=0 and its consumer unmounted within the first hour.
C3_RetainedWhileUsed ==
    /\ (FullPlan /\ NoRejection) =>
          /\ FirstThreeRequests
          /\ Len(requestLog) >= 4 =>
                /\ requestLog[4].at = 25 * Hour /\ ~requestLog[4].cold
                /\ requestLog[4].served = 2 /\ requestLog[4].started = 1
    /\ \A k \in 2..Len(requestLog) :
          requestLog[k].cold => requestLog[k].idleFor >= 24 * Hour
    /\ (plan = {0, 25 * Hour} /\ NoRejection /\ Len(requestLog) = 2) =>
          /\ requestLog[2].cold <=> requestLog[2].idleFor >= 24 * Hour
          /\ requestLog[2].cold => requestLog[2].served = 0 /\ requestLog[2].started = 1
          /\ ~requestLog[2].cold => requestLog[2].served = 1 /\ requestLog[2].started = 1

\* the request at 25 h of the full scenario has been made and its background
\* refetch has succeeded
C3_Witness ==
    /\ FullPlan /\ NoRejection
    /\ Len(requestLog) = 4
    /\ requestLog[4].mounted = 0
    /\ Len(calls) = 3 /\ calls[3].state = "resolved"

\* C4: a forecast answer the schema rejects makes fetchNWACWeatherForecast
\* fail with a ZodError, which becomes the query's error once the query has
\* given up; the invocation writes no value to the cache.
C4_SchemaMismatchNotCached ==
    source = "nwac" =>
        \A id \in 1..Len(calls) :
            calls[id].answer = "mismatch" =>
                /\ calls[id].state = "rejected"
                /\ calls[id].error = "ZodError"
                /\ calls[id].value = <<>>
                /\ \A key \in DOMAIN queries : queries[key].writer # id
                /\ (lastSettled = id /\ calls[id].key \in DOMAIN queries
                      /\ queries[calls[id].key].fetchStatus = "idle") =>
                        /\ queries[calls[id].key].error = "ZodError"
                        /\ queries[calls[id].key].status = "error"

\* a refetch of the forecast was answered with a body the schema rejects: the
\* query carries the ZodError and still holds the value of the earlier fetch
C4_Witness ==
    /\ source = "nwac"
    /\ \E key \in DOMAIN queries :
          /\ queries[key].error = "ZodError"
          /\ queries[key].writer = 1
          /\ lastSettled > 1
          /\ calls[lastSettled].answer = "mismatch"

\* both variants use one key, and a key has at most one fetch outstanding
OneKeyOneFetch ==
    /\ Cardinality(DOMAIN queries) <= 1
    /\ \A id \in 1..Len(calls) : calls[id].key \in {HookKey(source), PrefetchKey(source)}
    /\ HookKey(source) = PrefetchKey(source)
    /\ \A id, other \in InFlight : calls[id].key = calls[other].key => id = other

HoldsNothing(q) == q.data = <<>> /\ q.writer = 0

\* the entry holds what one invocation returned, the last one to resolve
HoldsLastResult(q) ==
    /\ q.writer \in Resolved
    /\ q.data = calls[q.writer].value
    /\ \A id \in Resolved : id <= q.writer

\* C5 as stated: one key for both variants, at most one fetch outstanding for
\* it, and the entry holds nothing or the whole result of the last fetch to
\* complete.
C5_NothingOrOneResult ==
    /\ OneKeyOneFetch
    /\ \A key \in DOMAIN queries :
          HoldsNothing(queries[key]) \/ HoldsLastResult(queries[key])

\* C5 amended: one key for both variants, at most one fetch outstanding for
\* it, and the entry holds nothing, or the initialData the alternate-zones hook
\* seeds it with at mount (an empty feature collection no fetch produced), or
\* the whole result of the last fetch to succeed.
C5_NothingSeedOrOneResult ==
    /\ OneKeyOneFetch
    /\ \A key \in DOMAIN queries :
          \/ HoldsNothing(queries[key])
          \/ /\ source = "kml"
             /\ queries[key].writer = InitialDataWriter
             /\ queries[key].data = <<[type |-> "FeatureCollection", features |-> <<>>]>>
          \/ HoldsLastResult(queries[key])

\* the hook mounted while the fetch of a prefetch was in flight and started
\* none of its own
C5_Witness ==
    /\ Len(calls) = 1
    /\ calls[1].origin = "prefetch" /\ calls[1].state = "inflight"
    /\ \E key \in DOMAIN queries : queries[key].observers = 1

\* C10: in both prefetch variants 'finished prefetching' is logged only after
\* the fetch of that prefetch has completed, after 'prefetching', and never
\* for a fetch that fails.
C10_FinishedAfterFetch ==
    \A id \in 1..Len(calls) :
        calls[id].origin = "prefetch" =>
            /\ calls[id].prefetching
            /\ calls[id].finished # "no" =>
                  /\ calls[id].state = "resolved"
                  /\ calls[id].finished = "afterResolve"

====
